---- MODULE Spec2Model ----
(***************************************************************************)
(* A model of swagger-to-typescript-api: the document normalizer           *)
(* (resolveCircular, fixMissingRef), the operation extractor (Parser), the *)
(* code generator (renderOperation) and the pipeline that drives them      *)
(* (swaggerToTypeScript).                                                  *)
(***************************************************************************)
EXTENDS Integers, Sequences, FiniteSets, TLC

\* resolveCircular: the object graph as it is and as it was given, the
\* on-stack set, the call stack of the walk, and where the walk stands.
VARIABLES heap, heap0, seen, stack, pc

\* fixMissingRef: the v2 document, its $ref strings as they are now, and
\* where swaggerToTypeScript stands.
VARIABLES fdoc, fref, fpc

\* The operation extractor: the document as given and as it is now, the
\* NormalizedOperations returned, and where the call stands.
VARIABLES document0, document, ops, xpc

\* A second run of the pipeline on the same document object: the $ref
\* strings as the first run left them.
VARIABLES fref1

\* renderOperation: the NormalizedOperation it is called on, the caller's
\* openAPITypes option, which of the repository's two render modules runs,
\* what it returns, the url the generated builder makes of its arguments,
\* and where the call stands.
VARIABLES operation, openAPITypes, version, rendered, request, rpc

\* The synthesis loop of swaggerToTypeScript: the thunks not yet popped, the
\* code blocks pushed so far, the renderOperation calls in flight, and where
\* the loop stands.
VARIABLES tasks, code, running, ppc

walkVars == <<heap, heap0, seen, stack, pc>>

fixVars == <<fdoc, fref, fpc>>

extractVars == <<document0, document, ops, xpc>>

secondVars == <<fref1>>

renderVars == <<operation, openAPITypes, version, rendered, request, rpc>>

pipeVars == <<tasks, code, running, ppc>>

vars == <<walkVars, fixVars, extractVars, secondVars, renderVars, pipeVars>>

\* What each part leaves alone.
notWalk == <<fixVars, extractVars, secondVars, renderVars, pipeVars>>

notFix == <<walkVars, extractVars, secondVars, renderVars, pipeVars>>

notExtract == <<walkVars, fixVars, secondVars, renderVars, pipeVars>>

notSecond == <<walkVars, extractVars, renderVars, pipeVars>>

notRender == <<walkVars, fixVars, extractVars, secondVars, pipeVars>>

notPipe == <<walkVars, fixVars, secondVars, renderVars>>

\* The parts that are not running.
SecondIdle == fref1 = <<>>

RenderIdle ==
  /\ operation = <<>> /\ openAPITypes = {} /\ version = "" /\ rendered = <<>>
  /\ request = <<>> /\ rpc = "idle"

PipeIdle == tasks = <<>> /\ code = <<>> /\ running = {} /\ ppc = "idle"

(***************************************************************************)
(* Part 1.  The object graph and resolveCircular.                          *)
(*                                                                         *)
(* Objects are identified by name (object identity); "doc" is the document *)
(* root.  A field holds no value, a primitive, a reference to an object,   *)
(* or one of the two fresh objects resolveCircular creates.                *)
(***************************************************************************)

\* The objects of the input document; "doc" is the root passed to the walk.
Objs == {"doc", "A", "B"}

\* Own keys in enumeration (insertion) order.  "flag" holds primitives only.
KeyOrder == <<"items", "flag", "properties", "x">>

Keys == {KeyOrder[i] : i \in 1..Len(KeyOrder)}

\* How many fields the input document has in total.
MaxFields == 3

Absent == [t |-> "absent", o |-> "", ks |-> {}]
Str == [t |-> "str", o |-> "", ks |-> {}]
FalseV == [t |-> "false", o |-> "", ks |-> {}]
Ref(o) == [t |-> "ref", o |-> o, ks |-> {}]
\* { tsType: '/** recursive */ any' }: a fresh object with one string field.
Marker == [t |-> "marker", o |-> "", ks |-> {}]
\* _.mapValues(value, () => marker): a fresh object, a Marker under each key.
MarkerMap(ks) == [t |-> "mmap", o |-> "", ks |-> ks]

IsRef(v) == v.t = "ref"

OwnKeys(h, o) == {k \in DOMAIN h[o] : h[o][k] # Absent}

\* The first own key of o at position >= i of the enumeration, else past the end.
NextIdx(h, o, i) ==
  LET js == {j \in i..Len(KeyOrder) : h[o][KeyOrder[j]] # Absent}
  IN IF js = {} THEN Len(KeyOrder) + 1
     ELSE CHOOSE j \in js : \A j2 \in js : j <= j2

Succs(h, o) == {h[o][k].o : k \in {k2 \in DOMAIN h[o] : IsRef(h[o][k2])}}

RECURSIVE ReachFrom(_, _, _)
ReachFrom(h, front, acc) ==
  LET new == (UNION {Succs(h, o) : o \in front}) \ acc
  IN IF new = {} THEN acc ELSE ReachFrom(h, new, acc \cup new)

\* Objects reachable from o by one or more object-valued fields.
ReachPlus(h, o) == ReachFrom(h, {o}, {})

\* The document graph: the root and what it reaches.
DocObjs(h) == {"doc"} \cup ReachPlus(h, "doc")

Acyclic(h) == \A o \in DocObjs(h) : o \notin ReachPlus(h, o)


ObjSeq == <<"doc", "A", "B">>

EdgeKeySeq == <<"items", "properties", "x">>

NObj == Len(ObjSeq)

NEdgeOpts == NObj * Len(EdgeKeySeq) * NObj

\* The fields a document may be given, numbered: first every (object, edge
\* key, target object), then every (object, "flag", string or false).
NumOpts == NEdgeOpts + 2 * NObj

OptObj(n) ==
  IF n <= NEdgeOpts THEN ObjSeq[((n - 1) \div (Len(EdgeKeySeq) * NObj)) + 1]
  ELSE ObjSeq[((n - NEdgeOpts - 1) \div 2) + 1]

OptKey(n) ==
  IF n <= NEdgeOpts THEN EdgeKeySeq[(((n - 1) \div NObj) % Len(EdgeKeySeq)) + 1]
  ELSE "flag"

OptVal(n) ==
  IF n <= NEdgeOpts THEN Ref(ObjSeq[((n - 1) % NObj) + 1])
  ELSE IF (n - NEdgeOpts - 1) % 2 = 0 THEN Str ELSE FalseV

\* The document whose fields are the options fs[1..MaxFields] (0: no field).
MkHeap(fs) ==
  [o \in Objs |-> [k \in Keys |->
     LET is == {i \in DOMAIN fs : fs[i] > 0 /\ OptObj(fs[i]) = o /\ OptKey(fs[i]) = k}
     IN IF is = {} THEN Absent ELSE OptVal(fs[CHOOSE i \in is : \A j \in is : i <= j])]]

\* Every object that has a field is part of the document.
Connected(h) == \A o \in Objs : OwnKeys(h, o) # {} => o \in DocObjs(h)

Frame(fn, o, i) == [fn |-> fn, o |-> o, i |-> i]

Top == stack[Len(stack)]

Pop == SubSeq(stack, 1, Len(stack) - 1)

ReplaceTop(f) == [stack EXCEPT ![Len(stack)] = f]

InitWalk ==
  /\ \E fs \in [1..MaxFields -> 0..NumOpts] :
       /\ \A i \in 1..(MaxFields - 1) : fs[i] <= fs[i + 1]
       /\ heap0 = MkHeap(fs)
       /\ Connected(heap0)
  /\ heap = heap0
  /\ seen = {}
  /\ stack = <<Frame("rc", "doc", NextIdx(heap0, "doc", 1))>>
  /\ pc = "walk"
  /\ fdoc = <<>> /\ fref = <<>> /\ fpc = "idle"
  /\ document0 = <<>> /\ document = <<>> /\ ops = <<>> /\ xpc = "idle"
  /\ SecondIdle /\ RenderIdle /\ PipeIdle

\* obj[key] = ... : the replacement resolveCircular writes for a field whose
\* value (object v) is in seen; under any other key the callback only returns.
Replacement(h, key, v) ==
  IF key = "items" THEN Marker
  ELSE IF key = "properties" THEN MarkerMap(OwnKeys(h, v))
  ELSE h[Top.o][key]

\* A walk that forgets seen.add(value).
SeenAddForgotten(s, v) == s

\* seen.add(value) before the inner forEach.
SeenAdd(s, v) == s \cup {v}

\* A walk that forgets seen.delete(value).
SeenDeleteForgotten(s, v) == s

\* seen.delete(value) after the inner forEach.
SeenDelete(s, v) == s \ {v}

\* Outer callback on a field that holds a primitive, or a fresh marker object
\* (added to seen, walked to no effect, deleted again).
VisitLeaf ==
  /\ pc = "walk" /\ Top.fn = "rc" /\ Top.i <= Len(KeyOrder)
  /\ ~IsRef(heap[Top.o][KeyOrder[Top.i]])
  /\ stack' = ReplaceTop(Frame("rc", Top.o, NextIdx(heap, Top.o, Top.i + 1)))
  /\ UNCHANGED <<heap, heap0, seen, pc>>
  /\ UNCHANGED notWalk

\* Outer callback on a field whose object is in seen.
VisitSeen ==
  /\ pc = "walk" /\ Top.fn = "rc" /\ Top.i <= Len(KeyOrder)
  /\ LET key == KeyOrder[Top.i]
         value == heap[Top.o][key]
     IN /\ IsRef(value) /\ value.o \in seen
        /\ heap' = [heap EXCEPT ![Top.o][key] = Replacement(heap, key, value.o)]
        /\ stack' = ReplaceTop(Frame("rc", Top.o, NextIdx(heap', Top.o, Top.i + 1)))
  /\ UNCHANGED <<heap0, seen, pc>>
  /\ UNCHANGED notWalk

\* Outer callback on a field whose object is not in seen: add it and start
\* the inner forEach over its fields.
VisitFresh ==
  /\ pc = "walk" /\ Top.fn = "rc" /\ Top.i <= Len(KeyOrder)
  /\ LET value == heap[Top.o][KeyOrder[Top.i]]
     IN /\ IsRef(value) /\ value.o \notin seen
        /\ seen' = SeenAdd(seen, value.o)
        /\ stack' = Append(stack, Frame("in", value.o, NextIdx(heap, value.o, 1)))
  /\ UNCHANGED <<heap, heap0, pc>>
  /\ UNCHANGED notWalk

\* Inner callback on an object: resolveCircular(val, seen) is entered.
InnerCall ==
  /\ pc = "walk" /\ Top.fn = "in" /\ Top.i <= Len(KeyOrder)
  /\ LET val == heap[Top.o][KeyOrder[Top.i]]
     IN /\ IsRef(val)
        /\ stack' = Append(stack, Frame("rc", val.o, NextIdx(heap, val.o, 1)))
  /\ UNCHANGED <<heap, heap0, seen, pc>>
  /\ UNCHANGED notWalk

\* Inner callback on a string or a fresh marker object: resolveCircular finds
\* no object-valued field and returns a truthy value; the forEach goes on.
InnerSkip ==
  /\ pc = "walk" /\ Top.fn = "in" /\ Top.i <= Len(KeyOrder)
  /\ heap[Top.o][KeyOrder[Top.i]].t \in {"str", "marker", "mmap"}
  /\ stack' = ReplaceTop(Frame("in", Top.o, NextIdx(heap, Top.o, Top.i + 1)))
  /\ UNCHANGED <<heap, heap0, seen, pc>>
  /\ UNCHANGED notWalk

\* Inner callback on false: resolveCircular(false) returns false, and a
\* callback that returns false ends lodash's forEach early.
InnerBreak ==
  /\ pc = "walk" /\ Top.fn = "in" /\ Top.i <= Len(KeyOrder)
  /\ heap[Top.o][KeyOrder[Top.i]] = FalseV
  /\ stack' = ReplaceTop(Frame("in", Top.o, Len(KeyOrder) + 1))
  /\ UNCHANGED <<heap, heap0, seen, pc>>
  /\ UNCHANGED notWalk

\* The inner forEach is over: seen.delete(value), and the outer forEach of
\* the caller moves to its next key.
InnerDone ==
  /\ pc = "walk" /\ Top.fn = "in" /\ Top.i > Len(KeyOrder)
  /\ seen' = SeenDelete(seen, Top.o)
  /\ LET caller == stack[Len(stack) - 1]
     IN stack' = [Pop EXCEPT ![Len(stack) - 1] =
                    Frame("rc", caller.o, NextIdx(heap, caller.o, caller.i + 1))]
  /\ UNCHANGED <<heap, heap0, pc>>
  /\ UNCHANGED notWalk

\* resolveCircular returns obj (an object, so truthy): the caller's inner
\* forEach moves on; the call on the root ends the walk.
Return ==
  /\ pc = "walk" /\ Top.fn = "rc" /\ Top.i > Len(KeyOrder)
  /\ IF Len(stack) = 1
     THEN /\ stack' = <<>>
          /\ pc' = "done"
     ELSE /\ LET caller == stack[Len(stack) - 1]
             IN stack' = [Pop EXCEPT ![Len(stack) - 1] =
                            Frame("in", caller.o, NextIdx(heap, caller.o, caller.i + 1))]
          /\ pc' = pc
  /\ UNCHANGED <<heap, heap0, seen>>
  /\ UNCHANGED notWalk

NextWalk ==
  \/ VisitLeaf
  \/ VisitSeen
  \/ VisitFresh
  \/ InnerCall
  \/ InnerSkip
  \/ InnerBreak
  \/ InnerDone
  \/ Return

(***************************************************************************)
(* Claims about resolveCircular.                                           *)
(***************************************************************************)

\* C1: after the walk from the document root, no object of the document
\* graph is reachable from itself by following object-valued fields.
C1_AcyclicAfterWalk == pc = "done" => Acyclic(heap)

\* The deepest recursion a walk over Objs can reach: each nested inner
\* forEach holds a different object of seen.
MaxDepth == 2 * Cardinality(Objs) + 1

\* C2: the walk terminates on every finite document graph: its recursion
\* depth stays bounded and the call on the root returns.
C2_WalkTerminates == [][Len(stack') <= MaxDepth]_vars /\ <>(pc = "done")

\* The walk has ended on a document that holds a cycle.
C2_Witness == pc = "done" /\ ~Acyclic(heap0)

\* Every property of the map under o.properties is a marker leaf.
AllMarkers(h, o) ==
  LET v == h[o]["properties"]
  IN \/ v.t = "mmap"
     \/ IsRef(v) /\ \A k \in OwnKeys(h, v.o) : h[v.o][k] = Marker

\* C3: a schema s whose properties map holds a property that leads back to s
\* has, after the walk, a marker leaf under every property (s being still
\* part of the document).
C3_PropertiesAllMarkers ==
  pc = "done" =>
    \A s \in DocObjs(heap) :
      (/\ IsRef(heap0[s]["properties"])
       /\ s \in Succs(heap0, heap0[s]["properties"].o))
      => AllMarkers(heap, s)

\* Every path from the root to b passes through a (a # b).
Dominates(h, a, b) ==
  /\ a # b
  /\ b # "doc"
  /\ \/ a = "doc"
     \/ b \notin ReachFrom([h EXCEPT ![a] = [k \in DOMAIN h[a] |-> Absent]], {"doc"}, {})

\* C4: an array schema b whose items field leads back to b itself, or to an
\* object that is above b on every path from the root, holds the marker leaf
\* under items after the walk (b being still part of the document).
C4_ItemsMarker ==
  pc = "done" =>
    \A b \in DocObjs(heap) :
      (/\ IsRef(heap0[b]["items"])
       /\ \/ heap0[b]["items"].o = b
          \/ Dominates(heap0, heap0[b]["items"].o, b))
      => heap[b]["items"] = Marker

\* The objects whose inner forEach is running: the ancestors on the path.
OnPath == {stack[i].o : i \in {j \in 1..Len(stack) : stack[j].fn = "in"}}

\* C5: seen holds exactly the ancestors on the current path, and the walk of
\* a document without cycles changes no field and inserts no marker.
C5_AcyclicUntouched ==
  /\ seen = OnPath
  /\ Acyclic(heap0) => heap = heap0

\* The walk has ended on an acyclic document in which one object sits under
\* two sibling fields, one of them items.
C5_Witness ==
  /\ pc = "done"
  /\ Acyclic(heap0)
  /\ \E o \in Objs, p \in Objs, k \in {"properties", "x"} :
       heap0[p]["items"] = Ref(o) /\ heap0[p][k] = Ref(o)

(***************************************************************************)
(* Part 2.  fixMissingRef on the v2 input path.                            *)
(*                                                                         *)
(* The document is a tree: node 0 is the root, node n > 0 is the value of  *)
(* key n of its parent.  A node is an object or the primitive false; an    *)
(* object may carry a $ref string.  A string is a sequence of tokens.      *)
(***************************************************************************)

\* How many values the input document holds below its root.
NumNodes == 3

FNodes == 1..NumNodes

Hash == [t |-> "#", k |-> 0]
Slash == [t |-> "/", k |-> 0]
Key(n) == [t |-> "key", k |-> n]

NoRef == <<>>

\* "#/a", "#/a/b"
Ptr1(a) == <<Hash, Slash, Key(a)>>
Ptr2(a, b) == <<Hash, Slash, Key(a), Slash, Key(b)>>

\* The $ref strings of the input documents.
RefStrings == {Ptr1(1), Ptr1(2), Ptr2(1, 2)}

\* str.replace('#/', ''): the first occurrence of "#/" is removed.
StripHashSlash(str) ==
  LET is == {i \in 1..(Len(str) - 1) : str[i] = Hash /\ str[i + 1] = Slash}
  IN IF is = {} THEN str
     ELSE LET i == CHOOSE i2 \in is : \A j \in is : i2 <= j
          IN SubSeq(str, 1, i - 1) \o SubSeq(str, i + 2, Len(str))

\* str.split('/'): the pieces between the slashes, at least one.
RECURSIVE Split(_)
Split(str) ==
  LET is == {i \in 1..Len(str) : str[i] = Slash}
  IN IF is = {} THEN <<str>>
     ELSE LET i == CHOOSE i2 \in is : \A j \in is : i2 <= j
          IN <<SubSeq(str, 1, i - 1)>> \o Split(SubSeq(str, i + 1, Len(str)))

\* object[segment]: the child of node o under the key the segment names;
\* 0 - 1 (undefined) when o is no object or has no such key.
Child(d, o, seg) ==
  IF /\ o >= 0
     /\ Len(seg) = 1 /\ seg[1].t = "key" /\ seg[1].k \in FNodes
     /\ (o = 0 \/ d.kind[o] = "obj")
     /\ d.parent[seg[1].k] = o
  THEN seg[1].k ELSE 0 - 1

RECURSIVE Get(_, _, _)
\* _.get(root, path), from node o on.
Get(d, o, path) ==
  IF path = <<>> THEN o ELSE Get(d, Child(d, o, Head(path)), Tail(path))

\* Truthiness of _.get(root, value.$ref.replace('#/', '').split('/')).
Lookup(d, str) ==
  LET n == Get(d, 0, Split(StripHashSlash(str)))
  IN n >= 0 /\ (n = 0 \/ d.kind[n] = "obj")

Children(d, o) == {n \in FNodes : d.parent[n] = o}

IsObj(d, n) == d.kind[n] = "obj"

\* '$ref' in value
HasRef(refs, n) == refs[n] # NoRef

RECURSIVE FixMissingRef(_, _, _), FixOuter(_, _, _, _), FixInner(_, _, _, _)
\* fixMissingRef(obj, root): the $ref strings after the call on node o.
FixMissingRef(d, refs, o) ==
  IF o # 0 /\ ~IsObj(d, o) THEN refs ELSE FixOuter(d, refs, o, 1)

\* The outer forEach of node o, from key n on.
FixOuter(d, refs, o, n) ==
  IF n > NumNodes THEN refs
  ELSE IF n \notin Children(d, o) \/ ~IsObj(d, n) THEN FixOuter(d, refs, o, n + 1)
  ELSE IF HasRef(refs, n)
  THEN FixOuter(d, IF Lookup(d, refs[n]) THEN refs ELSE [refs EXCEPT ![n] = NoRef],
                o, n + 1)
  ELSE FixOuter(d, FixInner(d, refs, n, 1), o, n + 1)

\* The inner forEach of node o, from key n on: fixMissingRef(val, root) for
\* each value, ended early by a call that returns false.
FixInner(d, refs, o, n) ==
  IF n > NumNodes THEN refs
  ELSE IF n \notin Children(d, o) THEN FixInner(d, refs, o, n + 1)
  ELSE IF ~IsObj(d, n) THEN refs
  ELSE FixInner(d, FixMissingRef(d, refs, n), o, n + 1)

\* The input documents: every value's parent is an object created before it,
\* only objects carry a $ref.
InitFix ==
  /\ fdoc \in [parent : [FNodes -> 0..(NumNodes - 1)],
               kind : [FNodes -> {"obj", "false"}],
               ref : [FNodes -> {NoRef} \cup RefStrings],
               v2 : BOOLEAN]
  /\ \A n \in FNodes :
       /\ fdoc.parent[n] < n
       /\ fdoc.parent[n] > 0 => fdoc.kind[fdoc.parent[n]] = "obj"
       /\ fdoc.kind[n] = "false" => fdoc.ref[n] = NoRef
  /\ fref = fdoc.ref
  /\ fpc = "start"
  /\ heap = <<>> /\ heap0 = <<>> /\ seen = {} /\ stack = <<>> /\ pc = "idle"
  /\ document0 = <<>> /\ document = <<>> /\ ops = <<>> /\ xpc = "idle"
  /\ SecondIdle /\ RenderIdle /\ PipeIdle

\* swagger starts with '2.': fixMissingRef(document), then the conversion.
ConvertV2 ==
  /\ fpc = "start" /\ fdoc.v2
  /\ fref' = FixMissingRef(fdoc, fref, 0)
  /\ fpc' = "converted"
  /\ UNCHANGED fdoc
  /\ UNCHANGED notFix

\* Any other document goes to the parser as it is.
ParseV3 ==
  /\ fpc = "start" /\ ~fdoc.v2
  /\ fpc' = "parsed"
  /\ UNCHANGED <<fdoc, fref>>
  /\ UNCHANGED notFix

NextFix ==
  \/ ConvertV2
  \/ ParseV3

\* C6: after fixMissingRef on a v2 document no object below the root carries
\* a $ref whose lookup fails, and every $ref whose lookup succeeds is kept.
C6_NoDanglingRef ==
  fpc = "converted" =>
    \A n \in FNodes :
      /\ fref[n] # NoRef => Lookup(fdoc, fref[n])
      /\ (fdoc.ref[n] # NoRef /\ Lookup(fdoc, fdoc.ref[n])) => fref[n] = fdoc.ref[n]

(***************************************************************************)
(* Part 3.  The operation extractor (Parser, lazy-resolution mode).        *)
(*                                                                         *)
(* A document is its paths in declaration order; a path item gives each    *)
(* HTTP method an operation or nothing.  Parameters, request bodies and    *)
(* schemas are records; a reference is a record that carries a $ref.       *)
(***************************************************************************)

\* The same methods with put and post in the other order.
HTTP_METHODS_Swapped == <<"get", "post", "put", "delete", "options", "head", "patch", "trace">>

\* Object.values(OpenAPIV3.HttpMethods)
HTTP_METHODS == <<"get", "put", "post", "delete", "options", "head", "patch", "trace">>

Methods == {HTTP_METHODS[i] : i \in 1..Len(HTTP_METHODS)}

\* How many entries an operation's parameters list has at most.
MaxParams == 3

\* How many content types a request body declares at most.
MaxContent == 2

\* How many paths a document declares at most.
MaxPaths == 2

(* Parameters *)

Param(name, in, required, sreq) ==
  [k |-> "param", ref |-> "", name |-> name, in |-> in, required |-> required,
   sreq |-> sreq]

RefParam(ptr) ==
  [k |-> "ref", ref |-> ptr, name |-> 0, in |-> "", required |-> "absent",
   sreq |-> "absent"]

NullParam ==
  [k |-> "null", ref |-> "", name |-> 0, in |-> "", required |-> "absent",
   sreq |-> "absent"]

(* Schemas and request bodies *)

NoSchema == [k |-> "none", props |-> {}]
RefSchema == [k |-> "ref", props |-> {}]
\* A schema without properties (an array, a string, ...).
PlainSchema == [k |-> "noprops", props |-> {}]
\* A schema with properties, each a <<type, format>>.
ObjectSchema(props) == [k |-> "object", props |-> props]

PropKinds == {<<"string", "binary">>, <<"string", "date">>, <<"integer", "binary">>}

SchemaOpts ==
  {NoSchema, RefSchema, PlainSchema} \cup {ObjectSchema(ps) : ps \in SUBSET PropKinds}

ContentTypes == {"application/json", "multipart/form-data", "text/plain"}

Media(ct, schema) == [ct |-> ct, schema |-> schema]

\* undefined / null where a media type object is expected.
NoMedia == Media("", NoSchema)

NoBody == [k |-> "absent", ref |-> "", content |-> <<>>]
RefBody(ptr) == [k |-> "ref", ref |-> ptr, content |-> <<>>]
Body(content) == [k |-> "body", ref |-> "", content |-> content]
NullBody == [k |-> "null", ref |-> "", content |-> <<>>]

(* The resolver: what SwaggerParser.resolve(api) knows of the document. *)

ParamPtr == "#/components/parameters/id"
BodyPtr == "#/components/requestBodies/upload"
MissingParamPtr == "#/components/parameters/nope"
MissingBodyPtr == "#/components/requestBodies/nope"

\* this.refs.exists($ref)
RefsExists(ptr) == ptr \in {ParamPtr, BodyPtr}

\* this.refs.get($ref), for a parameter
RefsGetParam(ptr) == Param(0, "path", "true", "absent")

\* this.refs.get($ref), for a request body
RefsGetBody(ptr) ==
  Body(<<Media("multipart/form-data", ObjectSchema({<<"string", "binary">>}))>>)

\* resolveSimpleRef: a reference yields null whether it exists or not (the
\* result of this.refs.get is not returned); anything else is returned.
ResolveSimpleRef(o, target, null) ==
  IF o.k = "ref" THEN null ELSE o

\* arr.sort(comparator) for a comparator that orders by a key: a stable
\* sort.  cmp[i][j] is the comparator's result on seq[i] and seq[j].
StableSort(seq, cmp) ==
  LET n == Len(seq)
      pos(i) == 1 + Cardinality({j \in 1..n :
                       \/ cmp[j][i] < 0
                       \/ cmp[j][i] = 0 /\ j < i})
  IN [p \in 1..n |-> seq[CHOOSE i \in 1..n : pos(i) = p]]


\* Where a value of `in` stands in the order of localeCompare.
InRank(in) ==
  IF in = "cookie" THEN 1 ELSE IF in = "header" THEN 2
  ELSE IF in = "path" THEN 3 ELSE 4

\* (a, b) => a.in.localeCompare(b.in), on the elements of an array
CmpIn(seq) ==
  [i \in 1..Len(seq) |-> [j \in 1..Len(seq) |-> InRank(seq[i].in) - InRank(seq[j].in)]]

\* Number(schema?.required || 0)
SchemaRequired(a) == IF a.sreq = "true" THEN 1 ELSE 0

\* (a, b) => Number(b.schema?.required || 0) - Number(a.schema?.required || 0)
\* on the elements of an array
CmpRequired(seq) ==
  [i \in 1..Len(seq) |->
     [j \in 1..Len(seq) |-> SchemaRequired(seq[j]) - SchemaRequired(seq[i])]]

IsTruthy(o) == o.k # "null"

IsPath(el) == el.in = "path"

IsQuery(el) == el.in = "query"

\* processParametersObject: map(resolveSimpleRef), filter(Boolean), sort by
\* `in`, map to a copy.  (No parameters list gives [] at the caller.)
ProcessParametersObject(parameters) ==
  LET resolved == [i \in 1..Len(parameters) |->
                     ResolveSimpleRef(parameters[i], RefsGetParam(parameters[i].ref),
                                      NullParam)]
      filtered == SelectSeq(resolved, IsTruthy)
  IN StableSort(filtered, CmpIn(filtered))

\* bodyContent[ct], undefined when the content type is not declared.
ContentGet(content, ct) ==
  LET is == {i \in 1..Len(content) : content[i].ct = ct}
  IN IF is = {} THEN NoMedia ELSE content[CHOOSE i \in is : TRUE]

\* bodyContent['application/json'] || bodyContent['multipart/form-data']
\*   || _.values(bodyContent)[0]
MediaObject(content) ==
  IF ContentGet(content, "application/json") # NoMedia
  THEN ContentGet(content, "application/json")
  ELSE IF ContentGet(content, "multipart/form-data") # NoMedia
  THEN ContentGet(content, "multipart/form-data")
  ELSE IF content # <<>> THEN content[1] ELSE NoMedia

\* _.values(schema.properties).some(type === 'string' && format === 'binary')
SomeBinary(schema) ==
  \E el \in schema.props : el[1] = "string" /\ el[2] = "binary"

\* isMultipart of processOperationObject, from the request body's content.
IsMultipart(content) ==
  IF ContentGet(content, "multipart/form-data") # NoMedia THEN TRUE
  ELSE LET schema == MediaObject(content).schema
       IN IF schema.k = "object" THEN SomeBinary(schema) ELSE FALSE

\* processOperationObject(item, {url, method})
ProcessOperationObject(item, url, method) ==
  LET reqBody == IF item.requestBody.k = "absent" THEN item.requestBody
                 ELSE ResolveSimpleRef(item.requestBody,
                                       RefsGetBody(item.requestBody.ref), NullBody)
      bodyContent == reqBody.content
      parameters == ProcessParametersObject(item.parameters)
      paths == SelectSeq(parameters, IsPath)
  IN [operationId |-> item.operationId,
      isMultipart |-> IsMultipart(bodyContent),
      pathParams |-> StableSort(paths, CmpRequired(paths)),
      queryParams |-> SelectSeq(parameters, IsQuery),
      responseData |-> IF item.resp200 = <<>> THEN NoMedia ELSE item.resp200[1],
      requestBody |-> MediaObject(bodyContent),
      url |-> url,
      method |-> method]

Operation(id, parameters, requestBody, resp200) ==
  [k |-> "op", operationId |-> id, parameters |-> parameters,
   requestBody |-> requestBody, resp200 |-> resp200]

\* A method the path item does not declare.
NoOperation == [k |-> "absent", operationId |-> <<>>, parameters |-> <<>>,
                requestBody |-> NoBody, resp200 |-> <<>>]

RECURSIVE Flat(_)
\* .flat(1)
Flat(seqs) == IF seqs = <<>> THEN <<>> ELSE Head(seqs) \o Flat(Tail(seqs))

\* HTTP_METHODS.filter((method) => path?.[method]).map(...) for one path
OperationsOfPath(entry) ==
  LET IsDeclared(m) == entry.item[m].k = "op"
      ms == SelectSeq(HTTP_METHODS, IsDeclared)
  IN [i \in 1..Len(ms) |-> [url |-> entry.key, method |-> ms[i],
                            item |-> entry.item[ms[i]]]]

\* pathKeys.filter((key) => paths[key])
IsPresent(entry) == ~entry.falsy

\* getProcessedOperationObjects()
GetProcessedOperationObjects(doc) ==
  LET entries == SelectSeq(doc, IsPresent)
      triples == Flat([i \in 1..Len(entries) |-> OperationsOfPath(entries[i])])
  IN [i \in 1..Len(triples) |->
        ProcessOperationObject(triples[i].item, triples[i].url, triples[i].method)]

(* The documents the extractor is run on. *)

PathEntry(key, falsy, item) == [key |-> key, falsy |-> falsy, item |-> item]

\* A path item that declares one method.
OneMethod(m, op) == [x \in Methods |-> IF x = m THEN op ELSE NoOperation]

\* The inline parameters an entry of a parameters list is drawn from, and
\* the two references (one the resolver knows, one it does not).
ParamOpts ==
  {Param(0, in, r, sr) : in \in {"path", "query"}, r \in {"true", "false", "absent"},
                         sr \in {"absent", "true"}}
  \cup {Param(0, "header", "absent", "absent")}
  \cup {RefParam(ParamPtr), RefParam(MissingParamPtr)}

\* An inline parameter is named by its place in the declared list.
Named(ps) ==
  [i \in 1..Len(ps) |-> IF ps[i].k = "param" THEN [ps[i] EXCEPT !.name = i] ELSE ps[i]]

\* The method sets a path item of the path family declares.
MethodSets ==
  {{}, {"get"}, {"post", "get"}, {"put", "post", "delete"},
   {"trace", "head", "options", "patch"}, Methods}

\* The operation a path item of the path family declares for a method.
PresetOperation(key, m) ==
  Operation(<<key, m>>,
            <<Param(1, "query", "absent", "absent"), Param(2, "path", "true", "absent")>>,
            IF m = "post" THEN Body(<<Media("application/json", PlainSchema)>>) ELSE NoBody,
            <<Media("application/json", PlainSchema)>>)

\* One operation, any parameters list of up to MaxParams entries.
InitParams ==
  /\ \E n \in 0..MaxParams : \E ps \in [1..n -> ParamOpts] :
       document0 = <<PathEntry(1, FALSE,
                       OneMethod("get", Operation(<<1, "get">>, Named(ps), NoBody, <<>>)))>>
  /\ document = document0 /\ ops = <<>> /\ xpc = "ready"
  /\ SecondIdle /\ RenderIdle /\ PipeIdle
  /\ heap = <<>> /\ heap0 = <<>> /\ seen = {} /\ stack = <<>> /\ pc = "idle"
  /\ fdoc = <<>> /\ fref = <<>> /\ fpc = "idle"

BodyOpts(content) ==
  {NoBody, RefBody(BodyPtr), RefBody(MissingBodyPtr), Body(content)}

\* One operation, any request body of up to MaxContent content types.
InitBody ==
  /\ \E n \in 0..MaxContent : \E cts \in [1..n -> ContentTypes] :
     \E schemas \in [1..n -> SchemaOpts] :
       /\ \A i \in 1..n : \A j \in 1..n : i # j => cts[i] # cts[j]
       /\ \E body \in BodyOpts([i \in 1..n |-> Media(cts[i], schemas[i])]) :
            document0 = <<PathEntry(1, FALSE,
                            OneMethod("post", Operation(<<1, "post">>, <<>>, body, <<>>)))>>
  /\ document = document0 /\ ops = <<>> /\ xpc = "ready"
  /\ SecondIdle /\ RenderIdle /\ PipeIdle
  /\ heap = <<>> /\ heap0 = <<>> /\ seen = {} /\ stack = <<>> /\ pc = "idle"
  /\ fdoc = <<>> /\ fref = <<>> /\ fpc = "idle"

\* Up to MaxPaths paths (path k stands for the key "/k"), in any declaration
\* order, each null or declaring one of the method sets.
InitPaths ==
  /\ \E n \in 0..MaxPaths : \E keys \in [1..n -> 1..MaxPaths] :
     \E falsy \in [1..n -> BOOLEAN] : \E ms \in [1..n -> MethodSets] :
       /\ \A i \in 1..n : \A j \in 1..n : i # j => keys[i] # keys[j]
       /\ \A i \in 1..n : falsy[i] => ms[i] = {}
       /\ document0 = [i \in 1..n |->
            PathEntry(keys[i], falsy[i],
                      [m \in Methods |-> IF m \in ms[i] THEN PresetOperation(keys[i], m)
                                         ELSE NoOperation])]
  /\ document = document0 /\ ops = <<>> /\ xpc = "ready"
  /\ SecondIdle /\ RenderIdle /\ PipeIdle
  /\ heap = <<>> /\ heap0 = <<>> /\ seen = {} /\ stack = <<>> /\ pc = "idle"
  /\ fdoc = <<>> /\ fref = <<>> /\ fpc = "idle"

\* parser.getProcessedOperationObjects(): every step builds new arrays and
\* objects (map, filter, flat, spread), the sorts run on those, and nothing is
\* assigned into the document.
Extract ==
  /\ xpc = "ready"
  /\ ops' = GetProcessedOperationObjects(document)
  /\ document' = document
  /\ xpc' = "extracted"
  /\ UNCHANGED document0
  /\ UNCHANGED notExtract

NextExtract == Extract

(* Claims about the extractor *)

\* The operation item an entry of the result was made from.
SourceItem(op) ==
  LET i == CHOOSE i \in 1..Len(document0) :
             document0[i].key = op.url /\ ~document0[i].falsy
  IN document0[i].item[op.method]

Range(seq) == {seq[i] : i \in 1..Len(seq)}

\* C7: in the lazy-resolution mode, for every entry of an operation's
\* parameters list, an inline parameter is kept as is, a reference whose
\* target exists in the resolver is replaced by the parameter it points to and
\* appears in pathParams or queryParams according to its `in`, and a reference
\* whose target does not exist is dropped; no resolvable parameter is lost.
C7_ResolvableParamsKept ==
  xpc = "extracted" =>
    \A n \in 1..Len(ops) :
      LET declared == SourceItem(ops[n]).parameters
          Resolved(e) == IF e.k = "ref" THEN RefsGetParam(e.ref) ELSE e
          kept == {Resolved(e) : e \in {d \in Range(declared) :
                                          d.k = "param" \/ RefsExists(d.ref)}}
      IN /\ Range(ops[n].pathParams) = {p \in kept : p.in = "path"}
         /\ Range(ops[n].queryParams) = {p \in kept : p.in = "query"}

\* C8: for every operation, pathParams lists every path parameter whose
\* required is true before every path parameter whose required is false or
\* absent, and within each group the parameters keep the relative order of the
\* declared parameters list (an inline parameter's name is its place there).
C8_RequiredFirst ==
  xpc = "extracted" =>
    \A n \in 1..Len(ops) :
      LET pp == ops[n].pathParams
          IsReq(p) == p.required = "true"
      IN \A i \in 1..Len(pp) : \A j \in 1..Len(pp) :
           i < j =>
             /\ ~(~IsReq(pp[i]) /\ IsReq(pp[j]))
             /\ (IsReq(pp[i]) = IsReq(pp[j]) /\ pp[i].name > 0 /\ pp[j].name > 0)
                  => pp[i].name < pp[j].name

\* C9: for every operation, isMultipart is true if the request body declares
\* a multipart/form-data content type, and also whenever the chosen media
\* type's schema (application/json, else multipart/form-data, else the first
\* declared) is an object with at least one property of type string and
\* format binary; otherwise it is false.  The request body of an operation
\* that refers to one is the body the reference points to.
C9_IsMultipart ==
  xpc = "extracted" =>
    \A n \in 1..Len(ops) :
      LET rb == SourceItem(ops[n]).requestBody
          body == IF rb.k = "ref" /\ RefsExists(rb.ref) THEN RefsGetBody(rb.ref) ELSE rb
          c == body.content
          Has(ct) == \E i \in 1..Len(c) : c[i].ct = ct
          First(ct) == c[CHOOSE i \in 1..Len(c) : c[i].ct = ct]
          chosen == IF Has("application/json") THEN First("application/json")
                    ELSE IF Has("multipart/form-data") THEN First("multipart/form-data")
                    ELSE c[1]
          binary == /\ c # <<>>
                    /\ chosen.schema.k = "object"
                    /\ <<"string", "binary">> \in chosen.schema.props
      IN ops[n].isMultipart = (Has("multipart/form-data") \/ binary)

\* The fixed method order of the claim.
C10_MethodOrder == <<"get", "put", "post", "delete", "options", "head", "patch", "trace">>

\* C10: extract(document) returns exactly one NormalizedOperation per declared
\* (path, method) pair and nothing else, ordered by path key in declaration
\* order and within one path by the order get, put, post, delete, options,
\* head, patch, trace; each entry holds the url and method of its pair; the
\* document is not modified.
C10_OnePerDeclaredPair ==
  xpc = "extracted" =>
    LET pairs == {pm \in (1..Len(document0)) \X (1..Len(C10_MethodOrder)) :
                    /\ ~document0[pm[1]].falsy
                    /\ document0[pm[1]].item[C10_MethodOrder[pm[2]]].k = "op"}
        PathIdx(op) == CHOOSE i \in 1..Len(document0) : document0[i].key = op.url
        MethodIdx(op) == CHOOSE i \in 1..Len(C10_MethodOrder) :
                           C10_MethodOrder[i] = op.method
        Pair(op) == <<PathIdx(op), MethodIdx(op)>>
    IN /\ Len(ops) = Cardinality(pairs)
       /\ \A n \in 1..Len(ops) :
            /\ \E i \in 1..Len(document0) : document0[i].key = ops[n].url
            /\ Pair(ops[n]) \in pairs
            /\ ops[n].operationId =
                 document0[PathIdx(ops[n])].item[ops[n].method].operationId
       /\ \A n \in 1..Len(ops) : \A k \in 1..Len(ops) :
            n < k => \/ PathIdx(ops[n]) < PathIdx(ops[k])
                     \/ /\ PathIdx(ops[n]) = PathIdx(ops[k])
                        /\ MethodIdx(ops[n]) < MethodIdx(ops[k])
       /\ document = document0

\* C10 witness: an extraction over two paths with operations, declared
\* against their key order, one of them declaring both put and post.
C10_Witness ==
  /\ xpc = "extracted"
  /\ Len(document0) = 2
  /\ document0[1].key > document0[2].key
  /\ \E n \in 1..Len(ops) : \E k \in 1..Len(ops) :
       /\ ops[n].url = ops[k].url
       /\ ops[n].method = "put" /\ ops[k].method = "post"
  /\ \E n \in 1..Len(ops) : ops[n].url # ops[1].url

(***************************************************************************)
(* Part 4.  The code generator (renderOperation, preprocessOperation,      *)
(* processSchemaObject, renderTypeConversion).                             *)
(*                                                                         *)
(* The repository holds two render modules: "GetType" types a path         *)
(* argument and a leaf schema with __GetType<type, format>, "plain" types  *)
(* them with number and string.  A name is a sequence of characters; the   *)
(* generated text is kept as the structure it spells out.                  *)
(***************************************************************************)

Versions == {"GetType", "plain"}

\* How many path parameters an operation has at most.
MaxPathParams == 3

\* How many query parameters an operation has at most.
MaxQueryParams == 2

\* How many characters a parameter name has at most.
MaxNameLen == 2

(* Names and camelCase *)

Alphabet == {"a", "A", "_", "-"}

IsLowerCase(c) == c = "a"

IsUpperCase(c) == c = "A"

IsLetter(c) == IsLowerCase(c) \/ IsUpperCase(c)

\* The i-th character begins a word: after a separator, at a lower-to-upper
\* step, or at the last capital of a run that a small letter follows.
StartsWord(name, i) ==
  /\ IsLetter(name[i])
  /\ \/ i = 1
     \/ ~IsLetter(name[i - 1])
     \/ IsUpperCase(name[i]) /\ IsLowerCase(name[i - 1])
     \/ /\ IsUpperCase(name[i]) /\ IsUpperCase(name[i - 1])
        /\ i < Len(name) /\ IsLowerCase(name[i + 1])

\* _.camelCase(name): the words in lower case, every word but the first with
\* a capital first letter, joined without separators.
CamelCase(name) ==
  LET letters == SelectSeq([i \in 1..Len(name) |-> i], LAMBDA i : IsLetter(name[i]))
  IN [n \in 1..Len(letters) |->
        IF n > 1 /\ StartsWord(name, letters[n]) THEN "A" ELSE "a"]

(* The NormalizedOperation as renderOperation reads it *)

RParam(name, required, type, format) ==
  [name |-> name, required |-> required, type |-> type, format |-> format]

\* requestBody / responseData: a media type object or nothing, with or
\* without a schema, and the length of the schema's `required` list.
RMedia(k, hasSchema, requiredLen) ==
  [k |-> k, hasSchema |-> hasSchema, requiredLen |-> requiredLen]

NoRMedia == RMedia("none", FALSE, 0)

\* A literal piece of a URL pattern, and a {name} placeholder.
Lit(n) == [t |-> "lit", name |-> <<>>, i |-> n]
Placeholder(name) == [t |-> "placeholder", name |-> name, i |-> 0]

ROperation(url, method, pathParams, queryParams, requestBody, responseData, isMultipart) ==
  [url |-> url, method |-> method, pathParams |-> pathParams,
   queryParams |-> queryParams, requestBody |-> requestBody,
   responseData |-> responseData, isMultipart |-> isMultipart]

\* el.required as a condition
Truthy(required) == required = "true"

(* processSchemaObject on a leaf (neither array nor object) *)

NoTsType == <<>>

\* The "GetType" module: the leaf keeps its type and, when it has one, gets
\* tsType __GetType<'type', 'format || "-"'>.
ProcessSchemaObject_GetType(type, format) ==
  [type |-> type,
   tsType |-> IF type # "" THEN <<type, IF format # "" THEN format ELSE "-">>
              ELSE NoTsType]

\* The "plain" module: integer with format int64 becomes string, any other
\* type stays.
ProcessSchemaObject_Plain(type, format) ==
  [type |-> IF type = "integer" /\ format = "int64" THEN "string" ELSE type,
   tsType |-> NoTsType]

ProcessSchemaObject(ver, type, format) ==
  IF ver = "GetType" THEN ProcessSchemaObject_GetType(type, format)
  ELSE ProcessSchemaObject_Plain(type, format)

\* _.fromPairs(params.map((el) => [el.name, processSchemaObject(el.schema)])):
\* one property per name, the last pair of a name wins.
FromPairs(ver, params) ==
  LET names == {params[i].name : i \in 1..Len(params)}
      last(nm) == CHOOSE i \in 1..Len(params) :
                    /\ params[i].name = nm
                    /\ \A j \in 1..Len(params) : params[j].name = nm => j <= i
  IN [nm \in names |->
        ProcessSchemaObject(ver, params[last(nm)].type, params[last(nm)].format)]

\* A member of the helper schema: undefined, or an object schema.
NoMember == [present |-> FALSE, properties |-> <<>>]
Member(properties) == [present |-> TRUE, properties |-> properties]

\* PathParams: pathParams.length ? {...} : undefined
PathParamsMember_GetType(ver, pathParams, queryParams) ==
  IF Len(pathParams) # 0 THEN Member(FromPairs(ver, pathParams)) ELSE NoMember

\* PathParams: queryParams.length ? {...} : undefined
PathParamsMember_Plain(ver, pathParams, queryParams) ==
  IF Len(queryParams) # 0 THEN Member(FromPairs(ver, pathParams)) ELSE NoMember

PathParamsMember(ver, pathParams, queryParams) ==
  IF ver = "GetType" THEN PathParamsMember_GetType(ver, pathParams, queryParams)
  ELSE PathParamsMember_Plain(ver, pathParams, queryParams)

\* The test of isSimplePathParams without the upper limit on the number of parameters.
IsSimplePathParams_NoLimit(pathParams) ==
  /\ Len(pathParams) > 0
  /\ \A i \in 1..Len(pathParams) : Truthy(pathParams[i].required)

\* pathParams.length > 0 && pathParams.length < 3 && pathParams.every(required)
IsSimplePathParams(pathParams) ==
  /\ Len(pathParams) > 0
  /\ Len(pathParams) < 3
  /\ \A i \in 1..Len(pathParams) : Truthy(pathParams[i].required)

\* preprocessOperation(operation)
PreprocessOperation(ver, o) ==
  LET pathParams == o.pathParams
      queryParams == o.queryParams
      hasPathParams == Len(pathParams) > 0
      hasQuery == Len(queryParams) > 0
      hasRequestBody == o.requestBody.k = "media" /\ o.requestBody.hasSchema
      hasRequiredQuery ==
        hasQuery /\ \E i \in 1..Len(queryParams) : Truthy(queryParams[i].required)
      hasRequiredBody == hasRequestBody /\ o.requestBody.requiredLen > 0
  IN [path |-> [present |-> hasPathParams,
                value |-> IF hasPathParams THEN pathParams ELSE <<>>,
                isSimple |-> hasPathParams /\ IsSimplePathParams(pathParams)],
      query |-> [present |-> hasQuery,
                 value |-> IF hasQuery THEN queryParams ELSE <<>>,
                 required |-> hasRequiredQuery],
      data |-> [present |-> o.requestBody.k = "media",
                isMultipart |-> o.requestBody.k = "media" /\ o.isMultipart,
                required |-> o.requestBody.k = "media" /\ hasRequiredBody],
      helperSchema |->
        [Body |-> hasRequestBody,
         Response |-> o.responseData.k = "media" /\ o.responseData.hasSchema,
         Params |-> IF Len(queryParams) # 0 THEN Member(FromPairs(ver, queryParams))
                    ELSE NoMember,
         PathParams |-> PathParamsMember(ver, pathParams, queryParams)]]

(* The generated builder *)

\* __GetType<'type', 'fmt'>
GetTypeOf(type, fmt) == [k |-> "GetType", type |-> type, fmt |-> fmt]
\* number, string
PlainType(type) == [k |-> "plain", type |-> type, fmt |-> ""]
\* __BaseTypes__["PathParams"]
BaseTypeOf(member) == [k |-> "BaseTypes", type |-> member, fmt |-> ""]
\* __Config
ConfigType == [k |-> "Config", type |-> "", fmt |-> ""]

Arg(name, type, orUndefined, optional) ==
  [name |-> name, type |-> type, orUndefined |-> orUndefined, optional |-> optional]

\* realType of the "GetType" module: __GetType<'${type}', '${fmt || ''}'>
RealType_GetType(type, format) ==
  GetTypeOf(IF type = "" THEN "undefined" ELSE type, format)

\* realType of the "plain" module:
\* schema?.type !== 'string' && !isI64 ? 'number' : 'string'
RealType_Plain(type, format) ==
  PlainType(IF type # "string" /\ format # "int64" THEN "number" ELSE "string")

RealType(ver, type, format) ==
  IF ver = "GetType" THEN RealType_GetType(type, format) ELSE RealType_Plain(type, format)

\* The names the generated text spells as identifiers that are not
\* parameter names.
PathParamsName == <<"p", "a", "t", "h", "P", "a", "r", "a", "m", "s">>
OptionsName == <<"_", "_", "o", "p", "t", "i", "o", "n", "s">>

\* renderOperation(operation): the arguments of the builder, the url
\* expression, the keys left out of the axios config, and the helper schema.
RenderOperation(ver, o) ==
  LET op == PreprocessOperation(ver, o)
      pathParams == [i \in 1..Len(op.path.value) |->
                       [op.path.value[i] EXCEPT !.name = CamelCase(op.path.value[i].name)]]
      simplePathArgs ==
        IF op.path.isSimple
        THEN [i \in 1..Len(pathParams) |->
                Arg(pathParams[i].name,
                    RealType(ver, pathParams[i].type, pathParams[i].format),
                    ~Truthy(pathParams[i].required), FALSE)]
        ELSE <<>>
      pathArgs ==
        IF op.path.isSimple THEN simplePathArgs
        ELSE IF op.path.present
        THEN <<Arg(PathParamsName, BaseTypeOf("PathParams"), FALSE, FALSE)>>
        ELSE <<>>
      options == Arg(OptionsName, ConfigType, FALSE,
                     ~(op.query.required \/ op.data.required))
  IN [fnArgs |-> pathArgs \o <<options>>,
      pathExpr |-> IF op.path.isSimple
                   THEN [k |-> "simple",
                         keys |-> [i \in 1..Len(pathParams) |-> pathParams[i].name]]
                   ELSE IF op.path.present THEN [k |-> "pathParams", keys |-> <<>>]
                   ELSE [k |-> "url", keys |-> <<>>],
      omitKeys |-> <<"method", "url">>
                   \o (IF op.query.present THEN <<"params">> ELSE <<>>)
                   \o (IF op.data.present THEN <<"data">> ELSE <<>>),
      toFormData |-> op.data.isMultipart,
      helperSchema |-> op.helperSchema]

(* The operations renderOperation is run on. *)

\* The name of the parameter declared at place i: i letters.
NameAt(i) == [j \in 1..i |-> "a"]

\* "/x/{name1}/x/{name2}...": one placeholder per path parameter.
UrlOf(pathParams) ==
  [i \in 1..(2 * Len(pathParams)) |->
     IF i % 2 = 1 THEN Lit((i + 1) \div 2) ELSE Placeholder(pathParams[i \div 2].name)]

RMediaOpts ==
  {NoRMedia, RMedia("media", FALSE, 0), RMedia("media", TRUE, 0), RMedia("media", TRUE, 1)}

\* Any number of path and query parameters, required or not, with or
\* without a request body, rendered by either module.
InitRender ==
  /\ version \in Versions
  /\ openAPITypes = {}
  /\ \E n \in 0..MaxPathParams : \E m \in 0..MaxQueryParams :
     \E preq \in [1..n -> {"true", "false", "absent"}] :
     \E qreq \in [1..m -> {"true", "absent"}] :
     \E body \in RMediaOpts :
       LET pathParams == [i \in 1..n |-> RParam(NameAt(i), preq[i], "string", "")]
       IN operation =
            ROperation(UrlOf(pathParams), "post", pathParams,
                       [i \in 1..m |-> RParam(NameAt(i), qreq[i], "integer", "int32")],
                       body, RMedia("media", TRUE, 0), FALSE)
  /\ rendered = <<>> /\ request = <<>> /\ rpc = "ready"
  /\ heap = <<>> /\ heap0 = <<>> /\ seen = {} /\ stack = <<>> /\ pc = "idle"
  /\ fdoc = <<>> /\ fref = <<>> /\ fpc = "idle"
  /\ document0 = <<>> /\ document = <<>> /\ ops = <<>> /\ xpc = "idle"
  /\ SecondIdle /\ PipeIdle

\* renderOperation(operation)
Render ==
  /\ rpc = "ready"
  /\ rendered' = RenderOperation(version, operation)
  /\ rpc' = "rendered"
  /\ UNCHANGED <<operation, openAPITypes, version, request>>
  /\ UNCHANGED notRender

\* The value the caller passes for the i-th path parameter, and what a
\* missing key yields.
Value(i) == [t |-> "value", name |-> <<>>, i |-> i]
Undefined == [t |-> "undefined", name |-> <<>>, i |-> 0]

\* interpolatePath(str, values):
\* str.replace(/{([^{}]+)}/g, (_, g1) => values[g1])
InterpolatePath(str, values) ==
  [j \in 1..Len(str) |->
     IF str[j].t = "placeholder"
     THEN (IF str[j].name \in DOMAIN values THEN values[str[j].name] ELSE Undefined)
     ELSE str[j]]

\* (${fnArgs}) => ...: two arguments of the same name.  An arrow function
\* with a duplicate parameter name is an early SyntaxError, the generated
\* module does not load.
DuplicateParameterName(args) ==
  \E i \in 1..Len(args) : \E j \in 1..Len(args) : i # j /\ args[i].name = args[j].name

\* (${fnArgs}) => ...: an argument whose name is empty (camelCase of a name
\* without a letter).  "( : T, ...) => ..." does not parse, the generated
\* module does not load.
EmptyParameterName(args) ==
  \E i \in 1..Len(args) : args[i].name = <<>>

\* {name1, name2}, for arguments of different names: each key holds the
\* value of the argument of that name.
ShorthandObject(keys, args) ==
  [nm \in {keys[j] : j \in 1..Len(keys)} |->
     Value(CHOOSE i \in 1..Len(args) : args[i].name = nm)]

\* The object a caller passes as pathParams: a value under each declared name.
PathParamsObject(pathParams) ==
  [nm \in {pathParams[i].name : i \in 1..Len(pathParams)} |->
     Value(CHOOSE i \in 1..Len(pathParams) : pathParams[i].name = nm)]

\* url: ${pathExpr} of a generated builder that loads, called with one value
\* per path parameter.
BuilderUrl(r, o) ==
  IF r.pathExpr.k = "simple"
  THEN InterpolatePath(o.url, ShorthandObject(r.pathExpr.keys, r.fnArgs))
  ELSE IF r.pathExpr.k = "pathParams"
  THEN InterpolatePath(o.url, PathParamsObject(o.pathParams))
  ELSE o.url

\* The generated module is loaded and the builder is called: a SyntaxError
\* and no url when the builder has an empty or a duplicate parameter name,
\* else its url.
CallBuilder ==
  /\ rpc = "rendered"
  /\ IF EmptyParameterName(rendered.fnArgs) \/ DuplicateParameterName(rendered.fnArgs)
     THEN request' = <<>> /\ rpc' = "syntax error"
     ELSE request' = BuilderUrl(rendered, operation) /\ rpc' = "called"
  /\ UNCHANGED <<operation, openAPITypes, version, rendered>>
  /\ UNCHANGED notRender

NextRender ==
  \/ Render
  \/ CallBuilder

(* Claims about the code generator *)

\* C11: the builder's path arguments have the simple shape (one named scalar
\* argument per path parameter) if and only if the operation has exactly 1 or
\* 2 path parameters and every one of them has required = true; with 3 or
\* more path parameters, or any path parameter not required, the builder takes
\* the single argument pathParams; with no path parameter it takes neither.
C11_SimplePathArgs ==
  rpc \in {"rendered", "called", "syntax error"} =>
    LET pp == operation.pathParams
        n == Len(pp)
        args == rendered.fnArgs
        simple == n \in {1, 2} /\ \A i \in 1..n : pp[i].required = "true"
        simpleShape ==
          /\ Len(args) = n + 1
          /\ \A i \in 1..n : /\ args[i].name = CamelCase(pp[i].name)
                             /\ args[i].type.k \in {"GetType", "plain"}
        single ==
          /\ Len(args) = 2
          /\ args[1].name = PathParamsName
          /\ args[1].type = BaseTypeOf("PathParams")
    IN /\ args[Len(args)].name = OptionsName
       /\ n > 0 => (simple <=> simpleShape)
       /\ (n > 0 /\ ~simple) => single
       /\ n = 0 => Len(args) = 1

\* C11 witness: an operation with two required path parameters was rendered
\* with two named arguments, by the module that uses __GetType.
C11_Witness ==
  /\ rpc = "rendered"
  /\ version = "GetType"
  /\ Len(operation.pathParams) = 2
  /\ \A i \in 1..2 : operation.pathParams[i].required = "true"
  /\ Len(rendered.fnArgs) = 3
  /\ rendered.fnArgs[2].name = NameAt(2)

\* C16: the helper schema's PathParams member is present exactly when the
\* operation has at least one path parameter, whatever its query parameters,
\* and then has one property per path parameter; so whenever the builder
\* declares pathParams: __BaseTypes__["PathParams"], that member is defined.
\* Params is present exactly when there is at least one query parameter.
C16_PathParamsMember ==
  rpc \in {"rendered", "called", "syntax error"} =>
    LET pp == operation.pathParams
        member == rendered.helperSchema.PathParams
    IN /\ member.present <=> Len(pp) > 0
       /\ member.present =>
            /\ DOMAIN member.properties = {pp[i].name : i \in 1..Len(pp)}
            /\ Cardinality(DOMAIN member.properties) = Len(pp)
       /\ (\E i \in 1..Len(rendered.fnArgs) :
             rendered.fnArgs[i].type = BaseTypeOf("PathParams")) => member.present
       /\ rendered.helperSchema.Params.present <=> Len(operation.queryParams) > 0

(* The primitive-format table (renderTypeConversion) and what the emitted   *)
(* types $Get and __GetType make of it.  The caller's openAPITypes option   *)
(* is a set of <<type, key, TypeScript type>>.                              *)

\* How many entries the caller's openAPITypes option has at most.
MaxOverrides == 2

Primitives == {"boolean", "number", "integer", "string"}

\* "" is a schema without format.
Formats == {"", "int32", "int64", "float", "binary", "uuid", "-"}

OverrideEntries ==
  {<<"integer", "int64", "bigint">>, <<"integer", "uuid", "Id">>,
   <<"number", "float", "Float">>, <<"boolean", "default", "Flag">>,
   <<"string", "default", "Text">>, <<"string", "uuid", "UUID">>,
   <<"string", "-", "Dash">>, <<"string", "", "Empty">>}

\* _.get(opt, [type, key], defaults)
Override(opt, type, key, defaults) ==
  IF \E e \in opt : e[1] = type /\ e[2] = key
  THEN (CHOOSE e \in opt : e[1] = type /\ e[2] = key)[3]
  ELSE defaults

\* The keys of $$Boolean, $$Number, $$Integer and $String.
TableKeys(opt, type) ==
  IF type = "boolean" THEN {"default"}
  ELSE IF type = "number" THEN {"default", "float", "double"}
  ELSE IF type = "integer" THEN {"default", "int32", "int64"}
  ELSE {"default", "date", "date-time", "password", "binary", "byte"}
       \cup {e[2] : e \in {x \in opt : x[1] = "string"}}

\* The type renderTypeConversion writes for a key of a table.
TableEntry(opt, type, key) ==
  Override(opt, type, key,
           IF type = "boolean" THEN "boolean"
           ELSE IF type = "number" THEN "number"
           ELSE IF type = "integer" THEN (IF key = "int64" THEN "string" ELSE "number")
           ELSE (IF key = "binary" THEN "File" ELSE "string"))

\* __GetType<Type, Fmt>: $Get<table of Type, Fmt>, i.e. T[Fmt] when Fmt is a
\* key of the table and T['default'] otherwise; never for any other Type.
GetType(opt, type, fmt) ==
  IF type \notin Primitives THEN "never"
  ELSE IF fmt \in TableKeys(opt, type) THEN TableEntry(opt, type, fmt)
  ELSE TableEntry(opt, type, "default")

\* The TypeScript type an argument's type expression stands for.
ArgTsType(opt, texpr) ==
  IF texpr.k = "GetType" THEN GetType(opt, texpr.type, texpr.fmt) ELSE texpr.type

\* The TypeScript type the compiler gives a processed leaf schema: its tsType
\* when it has one, else the type of its JSON-schema type.
LeafTsType(opt, leaf) ==
  IF leaf.tsType # NoTsType THEN GetType(opt, leaf.tsType[1], leaf.tsType[2])
  ELSE IF leaf.type \in {"integer", "number"} THEN "number"
  ELSE leaf.type

\* One required path parameter of any primitive type and format, under any
\* override of the table with up to MaxOverrides entries.
InitTypes ==
  /\ version \in Versions
  /\ openAPITypes \in {o \in SUBSET OverrideEntries : Cardinality(o) <= MaxOverrides}
  /\ \E type \in Primitives : \E format \in Formats :
       LET pathParams == <<RParam(NameAt(1), "true", type, format)>>
       IN operation = ROperation(UrlOf(pathParams), "get", pathParams, <<>>,
                                 NoRMedia, RMedia("media", TRUE, 0), FALSE)
  /\ rendered = <<>> /\ request = <<>> /\ rpc = "ready"
  /\ heap = <<>> /\ heap0 = <<>> /\ seen = {} /\ stack = <<>> /\ pc = "idle"
  /\ fdoc = <<>> /\ fref = <<>> /\ fpc = "idle"
  /\ document0 = <<>> /\ document = <<>> /\ ops = <<>> /\ xpc = "idle"
  /\ SecondIdle /\ PipeIdle

\* C12: for every primitive type, every format and every caller override of
\* the table, the type of a simple-mode path argument with that type and
\* format is the type the table gives a leaf schema with that type and format
\* at type-synthesis time; {type: integer, format: int64} gives a string-typed
\* argument under the default table.
C12_TableConsistent ==
  rpc \in {"rendered", "called", "syntax error"} =>
    \A i \in 1..Len(operation.pathParams) :
      LET p == operation.pathParams[i]
      IN (rendered.pathExpr.k = "simple" /\ p.type \in Primitives) =>
           /\ ArgTsType(openAPITypes, rendered.fnArgs[i].type)
                = LeafTsType(openAPITypes, ProcessSchemaObject(version, p.type, p.format))
           /\ (p.type = "integer" /\ p.format = "int64" /\ openAPITypes = {})
                => ArgTsType(openAPITypes, rendered.fnArgs[i].type) = "string"

(* Parameter names *)

\* The names of up to MaxNameLen characters, those without a letter included.
ParamNames == UNION {[1..n -> Alphabet] : n \in 1..MaxNameLen}

\* One or two required path parameters of any two different names.
InitNames ==
  /\ version \in Versions
  /\ openAPITypes = {}
  /\ \E n \in 1..2 : \E names \in [1..n -> ParamNames] :
       /\ \A i \in 1..n : \A j \in 1..n : i # j => names[i] # names[j]
       /\ LET pathParams == [i \in 1..n |-> RParam(names[i], "true", "string", "")]
          IN operation = ROperation(UrlOf(pathParams), "get", pathParams, <<>>,
                                    NoRMedia, RMedia("media", TRUE, 0), FALSE)
  /\ rendered = <<>> /\ request = <<>> /\ rpc = "ready"
  /\ heap = <<>> /\ heap0 = <<>> /\ seen = {} /\ stack = <<>> /\ pc = "idle"
  /\ fdoc = <<>> /\ fref = <<>> /\ fpc = "idle"
  /\ document0 = <<>> /\ document = <<>> /\ ops = <<>> /\ xpc = "idle"
  /\ SecondIdle /\ PipeIdle

\* C15: for every operation in simple path-parameter mode and every declared
\* path-parameter name, names that camel-casing changes included, the
\* builder's url is the URL pattern with each {name} placeholder replaced by
\* the value of the argument generated for that parameter.
C15_UrlInterpolated ==
  (rpc \in {"called", "syntax error"} /\ rendered.pathExpr.k = "simple") =>
    /\ rpc = "called"
    /\ Len(request) = Len(operation.url)
    /\ \A j \in 1..Len(operation.url) :
         IF operation.url[j].t = "placeholder"
         THEN \E i \in 1..Len(operation.pathParams) :
                /\ operation.pathParams[i].name = operation.url[j].name
                /\ request[j] = Value(i)
         ELSE request[j] = operation.url[j]

(***************************************************************************)
(* Part 5.  A second run of swaggerToTypeScript on the same document       *)
(* object: it starts from the document as the first run left it.           *)
(***************************************************************************)

\* The second run on a v2 document: fixMissingRef(document) once more.
ConvertV2Again ==
  /\ fpc = "converted"
  /\ fref1' = fref
  /\ fref' = FixMissingRef(fdoc, fref, 0)
  /\ fpc' = "converted again"
  /\ UNCHANGED fdoc
  /\ UNCHANGED notSecond

\* The second run on any other document.
ParseV3Again ==
  /\ fpc = "parsed"
  /\ fref1' = fref
  /\ fpc' = "parsed again"
  /\ UNCHANGED <<fdoc, fref>>
  /\ UNCHANGED notSecond

NextSecond ==
  \/ ConvertV2
  \/ ParseV3
  \/ ConvertV2Again
  \/ ParseV3Again

\* C13: running the pipeline twice on the same document object yields the
\* same output: the in-place changes of the first run (dangling-reference
\* pruning, cycle-breaking) do not change what the second run extracts, and
\* normalization applied to an already normalized document changes nothing.
C13_SecondRunChangesNothing ==
  fpc \in {"converted again", "parsed again"} => fref = fref1

(***************************************************************************)
(* Part 6.  The synthesis loop of swaggerToTypeScript.                     *)
(*                                                                         *)
(* A task is the place in ops of the operation its thunk renders; a code   *)
(* block names the operations it is about.                                 *)
(***************************************************************************)

Block(k, ids) == [k |-> k, ids |-> ids]

\* tasks.shift(): the first task and the others.
TasksShift(ts) == [task |-> ts[1], rest |-> SubSeq(ts, 2, Len(ts))]

\* tasks.pop(): the last task and the others.
TasksPop(ts) == [task |-> ts[Len(ts)], rest |-> SubSeq(ts, 1, Len(ts) - 1)]

\* The documents of the path family, taken through the whole pipeline.
InitPipeline ==
  /\ \E n \in 0..MaxPaths : \E keys \in [1..n -> 1..MaxPaths] :
     \E falsy \in [1..n -> BOOLEAN] : \E ms \in [1..n -> MethodSets] :
       /\ \A i \in 1..n : \A j \in 1..n : i # j => keys[i] # keys[j]
       /\ \A i \in 1..n : falsy[i] => ms[i] = {}
       /\ document0 = [i \in 1..n |->
            PathEntry(keys[i], falsy[i],
                      [m \in Methods |-> IF m \in ms[i] THEN PresetOperation(keys[i], m)
                                         ELSE NoOperation])]
  /\ document = document0 /\ ops = <<>> /\ xpc = "ready"
  /\ tasks = <<>> /\ code = <<>> /\ running = {} /\ ppc = "start"
  /\ heap = <<>> /\ heap0 = <<>> /\ seen = {} /\ stack = <<>> /\ pc = "idle"
  /\ fdoc = <<>> /\ fref = <<>> /\ fpc = "idle"
  /\ SecondIdle /\ RenderIdle

\* const code = [header]; const tasks = ops.map((el) => () => renderOperation(el))
MakeTasks ==
  /\ xpc = "extracted" /\ ppc = "start"
  /\ tasks' = [i \in 1..Len(ops) |-> i]
  /\ code' = <<Block("header", <<>>)>>
  /\ ppc' = "loop"
  /\ UNCHANGED running
  /\ UNCHANGED extractVars
  /\ UNCHANGED notPipe

\* while (tasks.length): tasks.pop()!() starts renderOperation, the loop
\* awaits its promise.
StartTask ==
  /\ ppc = "loop" /\ tasks # <<>>
  /\ running' = running \cup {TasksPop(tasks).task}
  /\ tasks' = TasksPop(tasks).rest
  /\ ppc' = "await"
  /\ UNCHANGED code
  /\ UNCHANGED extractVars
  /\ UNCHANGED notPipe

\* renderOperation resolves: code.push(its text), back to the loop test.
FinishTask ==
  /\ ppc = "await"
  /\ \E t \in running :
       /\ code' = Append(code, Block("operation", <<ops[t].operationId>>))
       /\ running' = running \ {t}
  /\ ppc' = "loop"
  /\ UNCHANGED tasks
  /\ UNCHANGED extractVars
  /\ UNCHANGED notPipe

\* renderOperation rejects (the schema compiler throws): swaggerToTypeScript
\* rejects, nothing is returned.
FailTask ==
  /\ ppc = "await"
  /\ running' = {}
  /\ ppc' = "failed"
  /\ UNCHANGED <<tasks, code>>
  /\ UNCHANGED extractVars
  /\ UNCHANGED notPipe

\* The loop is over: code.push(collectApis ... BaseRequest ...), which lists
\* ops in their order; the text is formatted and returned.
Aggregate ==
  /\ ppc = "loop" /\ tasks = <<>>
  /\ code' = Append(code, Block("aggregate", [i \in 1..Len(ops) |-> ops[i].operationId]))
  /\ ppc' = "done"
  /\ UNCHANGED <<tasks, running>>
  /\ UNCHANGED extractVars
  /\ UNCHANGED notPipe

NextPipeline ==
  \/ Extract
  \/ MakeTasks
  \/ StartTask
  \/ FinishTask
  \/ FailTask
  \/ Aggregate

\* C14: operation synthesis is serialized and ordered by the extraction order
\* alone: renderOperation for one operation starts only after the previous
\* one has completed, each extracted operation is rendered exactly once, the
\* per-operation code blocks are appended in reverse extraction order, and the
\* aggregate key map lists the operations in extraction order.
C14_SerializedReverseOrder ==
  ppc \in {"loop", "await", "done"} =>
    LET n == Len(ops)
        blocks == SelectSeq(code, LAMBDA b : b.k = "operation")
    IN /\ Cardinality(running) <= 1
       /\ running # {} => ppc = "await"
       /\ Len(blocks) + Cardinality(running) + Len(tasks) = n
       /\ \A j \in 1..Len(blocks) : blocks[j].ids = <<ops[n + 1 - j].operationId>>
       /\ \A t \in running : t = n - Len(blocks)
       /\ {tasks[i] : i \in 1..Len(tasks)} = 1..(n - Len(blocks) - Cardinality(running))
       /\ ppc = "done" =>
            /\ Len(blocks) = n
            /\ code = <<Block("header", <<>>)>> \o blocks
                      \o <<Block("aggregate", [i \in 1..n |-> ops[i].operationId])>>

\* C14 witness: a module assembled from at least three operations of two
\* paths.
C14_Witness ==
  /\ ppc = "done"
  /\ Len(ops) >= 3
  /\ ops[1].url # ops[Len(ops)].url
  /\ code[2].ids = <<ops[Len(ops)].operationId>>

(***************************************************************************)
(* The specifications: one per part, the other parts at rest.              *)
(***************************************************************************)

SpecWalk == InitWalk /\ [][NextWalk]_vars

\* The walk is one synchronous call: once started it runs to its end.
FairWalk == SpecWalk /\ WF_vars(NextWalk)

SpecFix == InitFix /\ [][NextFix]_vars

SpecParams == InitParams /\ [][NextExtract]_vars

SpecBody == InitBody /\ [][NextExtract]_vars

SpecPaths == InitPaths /\ [][NextExtract]_vars

SpecRender == InitRender /\ [][NextRender]_vars

SpecTypes == InitTypes /\ [][NextRender]_vars

SpecNames == InitNames /\ [][NextRender]_vars

SpecSecond == InitFix /\ [][NextSecond]_vars

SpecPipeline == InitPipeline /\ [][NextPipeline]_vars

====
